---- MODULE Spec2Model ----
(***************************************************************************)
(* The mesh viewer page (Home) with its Controls and MeshViewer children:  *)
(* the streaming loader, the playback interval, the keyboard handler and   *)
(* the control callbacks, as a state machine over React state.             *)
(*                                                                         *)
(* React's contract is modelled as follows.  A handler's state updates     *)
(* are committed in one step.  Passive effects (useEffect) whose deps      *)
(* changed run after the commit: in the same step for an update made in a  *)
(* discrete input event (keydown, click, change), and in a later step      *)
(* (FlushEffects) for an update made in a timer callback or an async       *)
(* continuation; pending effects always run before the next render.        *)
(* A render that throws tears the tree down.                               *)
(***************************************************************************)
EXTENDS Integers, Sequences, FiniteSets

\* ---------------------------------------------------------------- bounds
MaxTimesteps == 2       \* datasets hold 0..MaxTimesteps timesteps
MaxLen == 2             \* payloads hold 1..MaxLen bytes
MaxTimers == 2          \* size of the browser's interval table
MaxOvershoot == 5       \* how far outside [0, lastIndex] a direct onIndexChange call goes
MaxPoints == 2          \* timesteps hold 0..MaxPoints points
MaxTriangles == 2       \* timesteps hold 0..MaxTriangles triangles

\* ------------------------------------------------------ program constants
InitialSpeed == 4       \* useState(1); speeds are counted in quarters of 1x
SpeedUnit == 4          \* the quarter: the slowest option is 0.25x
IntervalBaseMs == 100   \* setInterval(..., 100 / playbackSpeed)
InitialProgress == 0    \* useState(0)
StartProgress == 10     \* setLoadProgress(10)
StreamSpan == 80        \* 10 + (received / total) * 80
DecodedProgress == 95   \* setLoadProgress(95)
FinalProgress == 100    \* setLoadProgress(100)
HalfWord == 65536       \* Uint32Array: an element is two 16-bit halves

SpeedOptions == {1, 2, 4, 8, 16}      \* 0.25x 0.5x 1x 2x 4x, in quarters
ColorModes == {"height", "curvature", "solid"}
StatusCodes == {200, 404, 500}

\* What a payload that parses as JSON holds: a Mesh Dataset; timesteps
\* without points (currentTimestep.points is undefined); or points of two
\* coordinates (p[2] is undefined).
Shapes == {"mesh", "noPoints", "flatPoints"}

TimerIds == 1..MaxTimers

\* ------------------------------------------------------------- helpers
Min(a, b) == IF a < b THEN a ELSE b
Max(a, b) == IF a > b THEN a ELSE b

\* Math.max(0, prev - 1) and Math.min(length - 1, prev + 1)
StepBack(prev) == Max(0, prev - 1)
StepForward(prev, len) == Min(len - 1, prev + 1)

\* 100 / playbackSpeed, in ms
PeriodMs(speed) == (IntervalBaseMs * SpeedUnit) \div speed

\* The model's clock advances by the shortest period (100 / 4 ms).
ClockStepMs == PeriodMs(16)

\* A decimal numeral as the sequence of its digits, and parseInt of it.
RECURSIVE DigitsOf(_)
DigitsOf(n) == IF n < 10 THEN <<n>> ELSE Append(DigitsOf(n \div 10), n % 10)

RECURSIVE ParseInt(_)
ParseInt(ds) ==
    IF Len(ds) = 0 THEN 0
    ELSE ParseInt(SubSeq(ds, 1, Len(ds) - 1)) * 10 + ds[Len(ds)]

\* Progress values are exact fractions num/den of a percent.
Frac(n, d) == [num |-> n, den |-> d]
Whole(n) == Frac(n, 1)
FracLeq(a, b) == a.num * b.den <= b.num * a.den
FracEq(a, b) == a.num * b.den = b.num * a.den

\* Mutant: the stream is given the whole span up to 100.
StreamProgressFullSpan(received, total) ==
    Frac(StartProgress * total + received * FinalProgress, total)

\* 10 + (received / total) * 80
StreamProgress(received, total) ==
    Frac(StartProgress * total + received * StreamSpan, total)

\* ------------------------------------------------------------- values
NoData == [set |-> FALSE, timesteps |-> 0, shape |-> "none"]
MeshData(n) == [set |-> TRUE, timesteps |-> n, shape |-> "mesh"]

NoError == [set |-> FALSE, status |-> 0]
\* Mutant: the message does not name the status.
StatusErrorDropsCode(status) == [set |-> TRUE, status |-> 0]

\* new Error(`Failed to load mesh data: ${response.status}`)
StatusError(status) == [set |-> TRUE, status |-> status]
\* a SyntaxError of JSON.parse / response.json(), or a rejected fetch
OtherError == [set |-> TRUE, status |-> 0]

NoTimer == [armed |-> FALSE, period |-> 0, elapsed |-> 0, len |-> 0]

\* The payload's bytes, named by their position.
Payload(n) == [i \in 1..n |-> i]

NoResponse ==
    [status |-> 0, contentLength |-> <<>>, body |-> <<>>, readable |-> FALSE,
     wellFormed |-> FALSE, timesteps |-> 0, shape |-> "none"]

\* The responses the server can give: any status, a content-length header
\* that is absent (<<>>) or a numeral, a payload that is or is not JSON, of
\* some number of timesteps of some shape (a payload that is no Mesh
\* Dataset holds one timestep), a body stream that is or is not exposed.
Responses ==
    LET All ==
          { [status |-> s, contentLength |-> h, body |-> Payload(n),
             readable |-> r, wellFormed |-> w, timesteps |-> t, shape |-> sh] :
              s \in StatusCodes,
              h \in {<<>>} \cup {DigitsOf(k) : k \in 0..MaxLen},
              n \in 1..MaxLen, r \in BOOLEAN,
              w \in BOOLEAN, t \in 0..MaxTimesteps, sh \in Shapes \cup {"none"} }
    IN  {x \in All :
            /\ x.wellFormed \/ x.timesteps = 0
            /\ x.wellFormed <=> x.shape \in Shapes
            /\ x.shape \in Shapes \ {"mesh"} => x.timesteps = 1}

\* What JSON.parse(text) / response.json() returns for a payload that parses.
ParsedData(r) == [MeshData(r.timesteps) EXCEPT !.shape = r.shape]

\* response.ok
Ok(r) == r.status >= 200 /\ r.status <= 299

\* contentLength ? parseInt(contentLength) : 0
Total(r) == IF r.contentLength = <<>> THEN 0 ELSE ParseInt(r.contentLength)

\* --------------------------------------------------------------- state
VARIABLES
    data, loading, loadProgress, error,        \* useState, lines 66-69
    currentIndex, isPlaying, playbackSpeed,    \* useState, lines 72-74
    autoRotate, showWireframe, colorMode,      \* useState, lines 77-79
    phase,          \* "created", "mounted", "unmounted" or "crashed"
    loader,         \* loadData's position and its locals
    resp,           \* the response loadData holds (see Release)
    requests,       \* the number of fetch calls issued
    timers,         \* the browser's interval table
    animation,      \* the animation effect's last deps and its interval handle
    keyListener,    \* the registered keydown handler and the data it closed over
    lastEvent,      \* history: the last event handled
    run,            \* history: the time since an undisturbed play from index 0 at 1x
    progressLog,    \* history: the values passed to setLoadProgress, in order
    cellMesh        \* a CellMesh: its props and its memoized geometry

reactState ==
    <<data, loading, loadProgress, error, currentIndex, isPlaying, playbackSpeed,
      autoRotate, showWireframe, colorMode>>
loadState == <<data, loading, loadProgress, error, loader, requests>>
playState == <<currentIndex, isPlaying, playbackSpeed>>
viewState == <<autoRotate, showWireframe, colorMode>>
homeVars ==
    <<data, loading, loadProgress, error, currentIndex, isPlaying, playbackSpeed,
      autoRotate, showWireframe, colorMode, phase, loader, resp, requests,
      timers, animation, keyListener, lastEvent, run, progressLog>>
vars ==
    <<data, loading, loadProgress, error, currentIndex, isPlaying, playbackSpeed,
      autoRotate, showWireframe, colorMode, phase, loader, resp, requests,
      timers, animation, keyListener, lastEvent, run, progressLog, cellMesh>>

LastIndex == data.timesteps - 1

\* ------------------------------------------------------------- timers
\* The handle setInterval returns: a free slot of the table (0: table full).
FreeTimer(ts) ==
    IF \E id \in TimerIds : ~ts[id].armed
    THEN CHOOSE id \in TimerIds :
            ~ts[id].armed /\ \A j \in TimerIds : ~ts[j].armed => id <= j
    ELSE 0

SetInterval(ts, id, period, len) ==
    IF id = 0 THEN ts
    ELSE [ts EXCEPT ![id] =
            [armed |-> TRUE, period |-> period, elapsed |-> 0, len |-> len]]

ClearInterval(ts, id) == IF id = 0 THEN ts ELSE [ts EXCEPT ![id] = NoTimer]

Due(ts, id) == ts[id].armed /\ ts[id].elapsed >= ts[id].period
AnyDue(ts) == \E id \in TimerIds : Due(ts, id)
ArmedTimers(ts) == {id \in TimerIds : ts[id].armed}

\* ------------------------------------------------------------ effects
\* Mutant: the effect does not test isPlaying.
AnimationSetupUnguarded(ts, playing, d, speed) ==
    IF ~d.set
    THEN [timers |-> ts, interval |-> 0]
    ELSE LET id == FreeTimer(ts)
         IN  [timers |-> SetInterval(ts, id, PeriodMs(speed), d.timesteps),
              interval |-> id]

\* The animation effect's body: nothing unless playing with data, else one
\* interval at 100 / playbackSpeed whose callback closes over data.
AnimationSetup(ts, playing, d, speed) ==
    IF ~playing \/ ~d.set
    THEN [timers |-> ts, interval |-> 0]
    ELSE LET id == FreeTimer(ts)
         IN  [timers |-> SetInterval(ts, id, PeriodMs(speed), d.timesteps),
              interval |-> id]

\* Mutant: the effect returns no cleanup, so its interval is never cleared.
AnimationCleanupLeaks(ts, interval) == ts

\* The animation effect's cleanup: return () => clearInterval(interval)
AnimationCleanup(ts, interval) == ClearInterval(ts, interval)

\* Mutant: playback wraps to the first timestep instead of stopping.
IntervalCallbackLoops(prev, len) ==
    LET next == prev + 1
    IN  IF next >= len THEN [index |-> 0, stop |-> FALSE]
        ELSE [index |-> next, stop |-> FALSE]

\* Mutant: the firing that reaches the last timestep also pauses.
IntervalCallbackPausesOnArrival(prev, len) ==
    LET next == prev + 1
    IN  IF next >= len THEN [index |-> prev, stop |-> TRUE]
        ELSE [index |-> next, stop |-> next >= len - 1]

\* Mutant: the end test is off by one (next >= length - 1).
IntervalCallbackStopsEarly(prev, len) ==
    LET next == prev + 1
    IN  IF next >= len - 1 THEN [index |-> prev, stop |-> TRUE]
        ELSE [index |-> next, stop |-> FALSE]

\* The functional updater of the interval callback; stop: setIsPlaying(false).
IntervalCallback(prev, len) ==
    LET next == prev + 1
    IN  IF next >= len THEN [index |-> prev, stop |-> TRUE]
        ELSE [index |-> next, stop |-> FALSE]

Effects == [timers |-> timers, animation |-> animation, keyListener |-> keyListener]

\* The passive effects React runs for the committed (playing, d, speed):
\* each effect whose deps changed is cleaned up and run again.
RunEffects(E, playing, d, speed) ==
    LET a == E.animation
        animStale == <<a.playing, a.data, a.speed>> # <<playing, d, speed>>
        cleared == AnimationCleanup(E.timers, a.interval)
        setup == AnimationSetup(cleared, playing, d, speed)
    IN  [timers |-> IF animStale THEN setup.timers ELSE E.timers,
         animation |->
            IF animStale
            THEN [playing |-> playing, data |-> d, speed |-> speed,
                  interval |-> setup.interval]
            ELSE a,
         keyListener |->
            IF E.keyListener.on /\ E.keyListener.data # d
            THEN [on |-> TRUE, data |-> d]
            ELSE E.keyListener]

\* Unmounting runs every cleanup.
Teardown(E) ==
    [timers |-> AnimationCleanup(E.timers, E.animation.interval),
     animation |-> [E.animation EXCEPT !.interval = 0],
     keyListener |-> [on |-> FALSE, data |-> E.keyListener.data]]

EffectsPending ==
    \/ <<animation.playing, animation.data, animation.speed>>
          # <<isPlaying, data, playbackSpeed>>
    \/ keyListener.on /\ keyListener.data # data

\* ------------------------------------------------------------- render
\* Home renders the loading screen while loading, then the error if there
\* is one, then the viewer; there data.timesteps[currentIndex] and its
\* points must exist (currentTimestep.points.length).
ErrorRendered(l, e) == ~l /\ e.set
ViewerRendered(l, e, d) == ~l /\ ~e.set /\ d.set
RenderThrows(l, e, d, idx) ==
    /\ ViewerRendered(l, e, d)
    /\ ~(idx >= 0 /\ idx < d.timesteps) \/ d.shape = "noPoints"

ControlsRendered ==
    phase = "mounted" /\ ViewerRendered(loading, error, data)
        /\ ~RenderThrows(loading, error, data, currentIndex)

\* ------------------------------------------------------------ history
Elapsed(ts, a) == IF a.interval = 0 THEN 0 ELSE ts[a.interval].elapsed

NoRun == [clean |-> FALSE, ms |-> 0]
RunCapMs == (MaxTimesteps + 3) * IntervalBaseMs

\* op: the handler; arg: the index it was given (0 if none); wasPlaying:
\* isPlaying when it started.
Event(op, arg) == [op |-> op, arg |-> arg, wasPlaying |-> isPlaying]

\* The response and the progress reports of a load attempt are kept until
\* the first event after loadData has returned.
LoadOver == loader.pc \in {"timeout", "done", "failed"}
Release ==
    IF LoadOver THEN resp' = NoResponse /\ progressLog' = <<>>
    ELSE UNCHANGED <<resp, progressLog>>

\* The events that hand an index to setCurrentIndex.
IndexOps == {"SliderChange", "ResetClick", "EndClick", "OnIndexChange"}

UserOps ==
    {"KeySpace", "KeyArrowLeft", "KeyArrowRight", "KeyHome", "KeyEnd", "KeyR",
     "KeyW", "SliderChange", "ResetClick", "EndClick", "PlayToggle",
     "SpeedChange", "RotateClick", "WireframeClick", "ColorModeClick",
     "OnIndexChange", "Unmount"}

\* ------------------------------------------------------------- commit
\* One event's updates to the playback and view state, rendered and
\* committed.  E0: the effect state the event leaves (a fired interval's
\* elapsed time reset).  sync: the event is a discrete input event, whose
\* effects run with the commit.  An event that changes nothing renders
\* nothing.
Commit(op, E0, idx, playing, speed, rot, wire, mode, sync) ==
    LET changed ==
            <<idx, playing, speed, rot, wire, mode>>
                # <<currentIndex, isPlaying, playbackSpeed, autoRotate,
                    showWireframe, colorMode>>
        flushed ==
            IF changed THEN RunEffects(E0, isPlaying, data, playbackSpeed) ELSE E0
        settled ==
            IF changed /\ sync THEN RunEffects(flushed, playing, data, speed)
            ELSE flushed
        throws == changed /\ RenderThrows(loading, error, data, idx)
        final == IF throws THEN Teardown(settled) ELSE settled
        starts ==
            /\ op \in {"KeySpace", "PlayToggle"}
            /\ ~isPlaying /\ playing
            /\ currentIndex = 0 /\ playbackSpeed = InitialSpeed
    IN  /\ currentIndex' = idx
        /\ isPlaying' = playing
        /\ playbackSpeed' = speed
        /\ autoRotate' = rot
        /\ showWireframe' = wire
        /\ colorMode' = mode
        /\ timers' = final.timers
        /\ animation' = final.animation
        /\ keyListener' = final.keyListener
        /\ phase' = IF throws THEN "crashed" ELSE phase
        /\ lastEvent' = Event(op, IF op \in IndexOps THEN idx ELSE 0)
        /\ run' = IF op \in UserOps \/ throws
                  THEN (IF starts /\ ~throws THEN [clean |-> TRUE, ms |-> 0]
                        ELSE NoRun)
                  ELSE run
        /\ Release
        /\ UNCHANGED <<loadState, cellMesh>>

\* ---------------------------------------------------------- the clock
\* Time passes by one clock step while no armed interval is due.
Advance ==
    /\ phase = "mounted"
    /\ ~AnyDue(timers)
    /\ ArmedTimers(timers) # {} \/ run.clean
    /\ timers' = [id \in TimerIds |->
                    IF timers[id].armed
                    THEN [timers[id] EXCEPT !.elapsed = @ + ClockStepMs]
                    ELSE timers[id]]
    /\ run' = IF run.clean
              THEN (IF run.ms + ClockStepMs > RunCapMs THEN NoRun
                    ELSE [run EXCEPT !.ms = @ + ClockStepMs])
              ELSE run
    /\ UNCHANGED <<reactState, phase, loader, resp, requests, animation,
                   keyListener, lastEvent, progressLog, cellMesh>>

\* Mutant: the callback does not call setIsPlaying(false) at the end.
TickKeepsPlaying(id) ==
    /\ phase = "mounted"
    /\ Due(timers, id)
    /\ LET r == IntervalCallback(currentIndex, timers[id].len)
           E0 == [Effects EXCEPT !.timers[id].elapsed = 0]
       IN  Commit("Tick", E0, r.index, isPlaying, playbackSpeed, autoRotate,
                  showWireframe, colorMode, FALSE)

\* An armed interval fires: setCurrentIndex(prev => ...), lines 145-154.
Tick(id) ==
    /\ phase = "mounted"
    /\ Due(timers, id)
    /\ LET r == IntervalCallback(currentIndex, timers[id].len)
           E0 == [Effects EXCEPT !.timers[id].elapsed = 0]
       IN  Commit("Tick", E0, r.index, IF r.stop THEN FALSE ELSE isPlaying,
                  playbackSpeed, autoRotate, showWireframe, colorMode, FALSE)

\* React runs the passive effects left pending by an earlier commit.
FlushEffects ==
    /\ phase = "mounted"
    /\ EffectsPending
    /\ LET E == RunEffects(Effects, isPlaying, data, playbackSpeed)
       IN  /\ timers' = E.timers
           /\ animation' = E.animation
           /\ keyListener' = E.keyListener
    /\ UNCHANGED <<reactState, phase, loader, resp, requests, lastEvent, run,
                   progressLog, cellMesh>>

\* The page is torn down: every effect's cleanup runs.
Unmount ==
    /\ phase = "mounted"
    /\ phase' = "unmounted"
    /\ LET E == Teardown(Effects)
       IN  /\ timers' = E.timers
           /\ animation' = E.animation
           /\ keyListener' = E.keyListener
    /\ lastEvent' = Event("Unmount", 0)
    /\ run' = NoRun
    /\ Release
    /\ UNCHANGED <<reactState, loader, requests, cellMesh>>

\* ----------------------------------------------------------- keyboard
\* Mutant: the handler is registered and runs whatever data is.
HandleKeyDownUnguarded(op, idx, playing, rot, wire) ==
    /\ phase = "mounted"
    /\ keyListener.on
    /\ Commit(op, Effects, idx, playing, playbackSpeed, rot, wire, colorMode,
              TRUE)

\* handleKeyDown, lines 161-188: the registered handler returns at once
\* when the data it closed over is null.
HandleKeyDown(op, idx, playing, rot, wire) ==
    /\ phase = "mounted"
    /\ keyListener.on
    /\ IF ~keyListener.data.set
       THEN Commit(op, Effects, currentIndex, isPlaying, playbackSpeed,
                   autoRotate, showWireframe, colorMode, TRUE)
       ELSE Commit(op, Effects, idx, playing, playbackSpeed, rot, wire,
                   colorMode, TRUE)

KeySpace ==
    HandleKeyDown("KeySpace", currentIndex, ~isPlaying, autoRotate, showWireframe)

KeyArrowLeft ==
    HandleKeyDown("KeyArrowLeft", StepBack(currentIndex), isPlaying, autoRotate,
                  showWireframe)

KeyArrowRight ==
    HandleKeyDown("KeyArrowRight",
                  StepForward(currentIndex, keyListener.data.timesteps),
                  isPlaying, autoRotate, showWireframe)

KeyHome == HandleKeyDown("KeyHome", 0, isPlaying, autoRotate, showWireframe)

KeyEnd ==
    HandleKeyDown("KeyEnd", keyListener.data.timesteps - 1, isPlaying,
                  autoRotate, showWireframe)

\* Mutant: r also rewinds to the first timestep.
KeyRRewinds == HandleKeyDown("KeyR", 0, isPlaying, ~autoRotate, showWireframe)

KeyR == HandleKeyDown("KeyR", currentIndex, isPlaying, ~autoRotate, showWireframe)

KeyW == HandleKeyDown("KeyW", currentIndex, isPlaying, autoRotate, ~showWireframe)

\* ----------------------------------------------------------- controls
\* Mutant: scrubbing also pauses playback.
OnIndexChangePauses(op, i) ==
    Commit(op, Effects, i, FALSE, playbackSpeed, autoRotate, showWireframe,
           colorMode, TRUE)

\* onIndexChange={setCurrentIndex}, line 272
OnIndexChange(op, i) ==
    Commit(op, Effects, i, isPlaying, playbackSpeed, autoRotate, showWireframe,
           colorMode, TRUE)

\* The range input holds a value in [min, max] = [0, totalFrames - 1] and
\* reports a change of it: onIndexChange(parseInt(e.target.value)).
SliderChange(v) ==
    /\ ControlsRendered
    /\ v >= 0 /\ v <= data.timesteps - 1
    /\ v # currentIndex
    /\ OnIndexChange("SliderChange", ParseInt(DigitsOf(v)))

\* onClick={() => onIndexChange(0)}
ResetClick == ControlsRendered /\ OnIndexChange("ResetClick", 0)

\* onClick={() => onIndexChange(totalFrames - 1)}
EndClick == ControlsRendered /\ OnIndexChange("EndClick", data.timesteps - 1)

\* onPlayToggle={() => setIsPlaying(p => !p)}
PlayToggle ==
    /\ ControlsRendered
    /\ Commit("PlayToggle", Effects, currentIndex, ~isPlaying, playbackSpeed,
              autoRotate, showWireframe, colorMode, TRUE)

\* onPlaybackSpeedChange={setPlaybackSpeed}: the select reports a change
\* to another of its options.
SpeedChange(s) ==
    /\ ControlsRendered
    /\ s \in SpeedOptions /\ s # playbackSpeed
    /\ Commit("SpeedChange", Effects, currentIndex, isPlaying, s, autoRotate,
              showWireframe, colorMode, TRUE)

\* onAutoRotateToggle={() => setAutoRotate(p => !p)}
RotateClick ==
    /\ ControlsRendered
    /\ Commit("RotateClick", Effects, currentIndex, isPlaying, playbackSpeed,
              ~autoRotate, showWireframe, colorMode, TRUE)

\* onWireframeToggle={() => setShowWireframe(p => !p)}
WireframeClick ==
    /\ ControlsRendered
    /\ Commit("WireframeClick", Effects, currentIndex, isPlaying, playbackSpeed,
              autoRotate, ~showWireframe, colorMode, TRUE)

\* onColorModeChange={setColorMode}
ColorModeClick(m) ==
    /\ ControlsRendered
    /\ m \in ColorModes
    /\ Commit("ColorModeClick", Effects, currentIndex, isPlaying, playbackSpeed,
              autoRotate, showWireframe, m, TRUE)

\* ------------------------------------------------------------- loader
\* Mutant: position is not advanced, every chunk is copied to the start.
RECURSIVE CopyChunksAtStart(_, _, _)
CopyChunksAtStart(arr, chunks, position) ==
    IF chunks = <<>> THEN arr
    ELSE LET chunk == Head(chunks)
         IN  CopyChunksAtStart(
                [i \in DOMAIN arr |->
                    IF i > position /\ i <= position + Len(chunk)
                    THEN chunk[i - position] ELSE arr[i]],
                Tail(chunks), position)

\* allChunks.set(chunk, position) for each chunk in turn, lines 110-115
RECURSIVE CopyChunks(_, _, _)
CopyChunks(arr, chunks, position) ==
    IF chunks = <<>> THEN arr
    ELSE LET chunk == Head(chunks)
         IN  CopyChunks(
                [i \in DOMAIN arr |->
                    IF i > position /\ i <= position + Len(chunk)
                    THEN chunk[i - position] ELSE arr[i]],
                Tail(chunks), position + Len(chunk))

\* new Uint8Array(received), filled from the chunks
AllChunks(chunks, received) == CopyChunks([i \in 1..received |-> 0], chunks, 0)

\* JSON.parse(text) / response.json(): the whole of a well-formed payload
\* parses to its dataset; anything else throws.
Parses(text, r) == r.wellFormed /\ text = r.body

IdleLoader == [pc |-> "start", total |-> 0, chunks |-> <<>>, received |-> 0]

\* A loader step that rerenders: pending effects run first.
LoaderStep(op, reports) ==
    /\ phase = "mounted"
    /\ LET E == RunEffects(Effects, isPlaying, data, playbackSpeed)
       IN  /\ timers' = E.timers
           /\ animation' = E.animation
           /\ keyListener' = E.keyListener
    /\ lastEvent' = Event(op, 0)
    /\ progressLog' = progressLog \o reports
    /\ UNCHANGED <<playState, viewState, run, cellMesh>>

\* The catch block, lines 131-135.
Catch(op, err, reports) ==
    /\ LoaderStep(op, reports)
    /\ error' = err
    /\ loading' = FALSE
    /\ loader' = [IdleLoader EXCEPT !.pc = "failed"]
    /\ UNCHANGED <<data, phase>>

\* Mutant: playback starts as soon as the dataset is there.
LoadedAutoplays(op, d, reports) ==
    /\ phase = "mounted"
    /\ LET E == RunEffects(Effects, isPlaying, data, playbackSpeed)
       IN  /\ timers' = E.timers
           /\ animation' = E.animation
           /\ keyListener' = E.keyListener
    /\ lastEvent' = Event(op, 0)
    /\ progressLog' = progressLog \o reports
    /\ isPlaying' = TRUE
    /\ data' = d
    /\ loadProgress' = Whole(FinalProgress)
    /\ loader' = [IdleLoader EXCEPT !.pc = "timeout"]
    /\ UNCHANGED <<currentIndex, playbackSpeed, viewState, run, cellMesh,
                   loading, error, phase>>

\* setData(meshData); setLoadProgress(100); setTimeout(...), lines 121-129
Loaded(op, d, reports) ==
    /\ LoaderStep(op, reports)
    /\ data' = d
    /\ loadProgress' = Whole(FinalProgress)
    /\ loader' = [IdleLoader EXCEPT !.pc = "timeout"]
    /\ UNCHANGED <<loading, error, phase>>

\* The first effects: loadData starts (setLoadProgress(10), fetch), the
\* animation effect returns at once, the keydown handler is registered.
Mount ==
    /\ phase = "created"
    /\ phase' = "mounted"
    /\ loadProgress' = Whole(StartProgress)
    /\ progressLog' = Append(progressLog, Whole(StartProgress))
    /\ requests' = requests + 1
    /\ loader' = [loader EXCEPT !.pc = "fetch"]
    /\ LET setup == AnimationSetup(timers, isPlaying, data, playbackSpeed)
       IN  /\ timers' = setup.timers
           /\ animation' = [playing |-> isPlaying, data |-> data,
                            speed |-> playbackSpeed, interval |-> setup.interval]
    /\ keyListener' = [on |-> TRUE, data |-> data]
    /\ lastEvent' = Event("Mount", 0)
    /\ UNCHANGED <<data, loading, error, playState, viewState, resp, run,
                   cellMesh>>

\* fetch resolves with response r, lines 87-98.
FetchResponds(r) ==
    /\ loader.pc = "fetch"
    /\ r \in Responses
    /\ resp' = r
    /\ UNCHANGED requests
    /\ IF ~Ok(r)
       THEN /\ Catch("FetchResponds", StatusError(r.status), <<>>)
            /\ UNCHANGED loadProgress
       ELSE /\ LoaderStep("FetchResponds", <<>>)
            /\ loader' =
                 IF Total(r) # 0 /\ r.readable
                 THEN [pc |-> "read", total |-> Total(r), chunks |-> <<>>,
                       received |-> 0]
                 ELSE [IdleLoader EXCEPT !.pc = "json"]
            /\ UNCHANGED <<data, loading, loadProgress, error, phase>>

\* fetch rejects (no response at all).
FetchRejects ==
    /\ loader.pc = "fetch"
    /\ Catch("FetchRejects", OtherError, <<>>)
    /\ UNCHANGED <<resp, requests, loadProgress>>

\* reader.read() yields the next k bytes of the body, lines 103-107.
ReadChunk(k) ==
    /\ loader.pc = "read"
    /\ k >= 1 /\ loader.received + k <= Len(resp.body)
    /\ LET chunk == SubSeq(resp.body, loader.received + 1, loader.received + k)
           received == loader.received + Len(chunk)
           progress == StreamProgress(received, loader.total)
       IN  /\ loader' = [loader EXCEPT !.chunks = Append(@, chunk),
                                       !.received = received]
           /\ loadProgress' = progress
           /\ LoaderStep("ReadChunk", <<progress>>)
    /\ UNCHANGED <<data, loading, error, phase, resp, requests>>

\* Mutant: 100 is reported before the text is parsed.
ReadDoneReportsEarly ==
    /\ loader.pc = "read"
    /\ loader.received = Len(resp.body)
    /\ LET text == AllChunks(loader.chunks, loader.received)
       IN  IF Parses(text, resp)
           THEN Loaded("ReadDone", ParsedData(resp),
                       <<Whole(DecodedProgress), Whole(FinalProgress)>>)
           ELSE /\ Catch("ReadDone", OtherError,
                         <<Whole(DecodedProgress), Whole(FinalProgress)>>)
                /\ loadProgress' = Whole(FinalProgress)
    /\ UNCHANGED <<resp, requests>>

\* Mutant: the read loop is left after the first chunk.
ReadDoneTruncated ==
    /\ loader.pc = "read"
    /\ loader.received >= 1
    /\ IF resp.wellFormed
       THEN Loaded("ReadDone", ParsedData(resp),
                   <<Whole(DecodedProgress), Whole(FinalProgress)>>)
       ELSE /\ Catch("ReadDone", OtherError, <<Whole(DecodedProgress)>>)
            /\ loadProgress' = Whole(DecodedProgress)
    /\ UNCHANGED <<resp, requests>>

\* reader.read() reports done: assemble, decode, parse, lines 104, 110-129.
ReadDone ==
    /\ loader.pc = "read"
    /\ loader.received = Len(resp.body)
    /\ LET text == AllChunks(loader.chunks, loader.received)
       IN  IF Parses(text, resp)
           THEN Loaded("ReadDone", ParsedData(resp),
                       <<Whole(DecodedProgress), Whole(FinalProgress)>>)
           ELSE /\ Catch("ReadDone", OtherError, <<Whole(DecodedProgress)>>)
                /\ loadProgress' = Whole(DecodedProgress)
    /\ UNCHANGED <<resp, requests>>

\* Mutant: the fallback reports the decode step as the streaming path does.
JsonResolvesReportsDecode ==
    /\ loader.pc = "json"
    /\ IF Parses(resp.body, resp)
       THEN Loaded("JsonResolves", ParsedData(resp),
                   <<Whole(DecodedProgress), Whole(FinalProgress)>>)
       ELSE /\ Catch("JsonResolves", OtherError, <<>>)
            /\ UNCHANGED loadProgress
    /\ UNCHANGED <<resp, requests>>

\* The fallback: await response.json(), lines 124-128.
JsonResolves ==
    /\ loader.pc = "json"
    /\ IF Parses(resp.body, resp)
       THEN Loaded("JsonResolves", ParsedData(resp),
                   <<Whole(FinalProgress)>>)
       ELSE /\ Catch("JsonResolves", OtherError, <<>>)
            /\ UNCHANGED loadProgress
    /\ UNCHANGED <<resp, requests>>

\* setTimeout(() => setLoading(false), 300): the viewer is rendered.
FinishLoading ==
    /\ loader.pc = "timeout"
    /\ phase = "mounted"
    /\ loading' = FALSE
    /\ loader' = [loader EXCEPT !.pc = "done"]
    /\ LET throws == RenderThrows(FALSE, error, data, currentIndex)
           flushed == RunEffects(Effects, isPlaying, data, playbackSpeed)
           E == IF throws THEN Teardown(flushed) ELSE flushed
       IN  /\ phase' = IF throws THEN "crashed" ELSE phase
           /\ timers' = E.timers
           /\ animation' = E.animation
           /\ keyListener' = E.keyListener
    /\ lastEvent' = Event("FinishLoading", 0)
    /\ run' = IF RenderThrows(FALSE, error, data, currentIndex) THEN NoRun ELSE run
    /\ Release
    /\ UNCHANGED <<data, loadProgress, error, playState, viewState, requests,
                   cellMesh>>

\* ----------------------------------------------------------- CellMesh
\* Coordinates are counted in tenths and colors in thousandths; the
\* arithmetic of CellMesh is done exactly on them (a quotient is cut to a
\* whole thousandth).
Xs == {0, 12}
Ys == {0, 9}
Zs == {-1, 1}
PointSet == {<<x, y, z>> : x \in Xs, y \in Ys, z \in Zs}

SeqsUpTo(S, n) == UNION {[1..m -> S] : m \in 0..n}

\* The components of a triangle of a timestep of n points: every index of
\* a point, the one below and the one above.
IndexValues(n) == (0 - 1)..n

\* Triangles in which at most one component is not the first point.
TriangleSet(n) ==
    {t \in [1..3 -> IndexValues(n)] : Cardinality({k \in 1..3 : t[k] # 0}) <= 1}

SamplePoints(n) == [i \in 1..n |-> <<0, 0, i>>]

\* The timesteps CellMesh is given: any points without triangles, and any
\* triangles over n points (the index buffer depends on the points through
\* their number only).
Timesteps ==
    {[points |-> p, triangles |-> <<>>] : p \in SeqsUpTo(PointSet, MaxPoints)}
        \cup UNION {{[points |-> SamplePoints(n), triangles |-> t] :
                        t \in SeqsUpTo(TriangleSet(n), MaxTriangles)} :
                     n \in 0..MaxPoints}

\* every component of every triangle is the index of a point
ValidIndices(timestep) ==
    \A j \in DOMAIN timestep.triangles : \A k \in 1..3 :
        /\ timestep.triangles[j][k] >= 0
        /\ timestep.triangles[j][k] < Len(timestep.points)

Abs(x) == IF x < 0 THEN 0 - x ELSE x

\* Math.sqrt, cut to a whole number (exact on the squares)
Isqrt(n) == CHOOSE k \in 0..n : k * k <= n /\ (k + 1) * (k + 1) > n

\* the conversion of a number to an element of a Uint32Array (modulo 2^32)
Uint32(x) == [hi |-> (x \div HalfWord) % HalfWord, lo |-> x % HalfWord]

\* Mutant: the second and third components are pushed in the wrong order.
RECURSIVE FlattenSwapped(_)
FlattenSwapped(rows) ==
    IF rows = <<>> THEN <<>>
    ELSE <<Head(rows)[1], Head(rows)[3], Head(rows)[2]>>
            \o FlattenSwapped(Tail(rows))

\* for (const p of rows) array.push(p[0], p[1], p[2])
RECURSIVE Flatten(_)
Flatten(rows) ==
    IF rows = <<>> THEN <<>>
    ELSE <<Head(rows)[1], Head(rows)[2], Head(rows)[3]>> \o Flatten(Tail(rows))

\* new Float32Array(posArray)
Positions(points) == Flatten(points)

\* new Uint32Array(idxArray)
Indices(triangles) ==
    LET idxArray == Flatten(triangles)
    IN  [i \in DOMAIN idxArray |-> Uint32(idxArray[i])]

\* the extrema of p[2] over the points (there is one point at least)
ZMin(points) ==
    CHOOSE z \in {points[i][3] : i \in DOMAIN points} :
        \A i \in DOMAIN points : z <= points[i][3]
ZMax(points) ==
    CHOOSE z \in {points[i][3] : i \in DOMAIN points} :
        \A i \in DOMAIN points : z >= points[i][3]

\* zMax - zMin || 1
ZRange(points) ==
    IF ZMax(points) - ZMin(points) = 0 THEN 1 ELSE ZMax(points) - ZMin(points)

\* Mutant: the ramp runs from red to blue.
HeightColorReversed(z, zMin, zRange) ==
    LET dz == z - zMin
    IN  <<(900 * (zRange - dz)) \div zRange + 100,
          300 + (400 * (zRange - Abs(2 * dz - zRange))) \div zRange,
          (900 * dz) \div zRange + 100>>

\* t = (z - zMin) / zRange; (t * 0.9 + 0.1, 0.3 + 0.4 * (1 - |t - 0.5| * 2),
\* (1 - t) * 0.9 + 0.1)
HeightColor(z, zMin, zRange) ==
    LET dz == z - zMin
    IN  <<(900 * dz) \div zRange + 100,
          300 + (400 * (zRange - Abs(2 * dz - zRange))) \div zRange,
          (900 * (zRange - dz)) \div zRange + 100>>

\* Mutant: the distance from the centre is taken in three dimensions.
CurvatureColorInSpace(point) ==
    LET r == Isqrt(point[1] * point[1] + point[2] * point[2]
                     + point[3] * point[3])
        rNorm == Min((r * 1000) \div 12, 1000)
    IN  <<200 + (rNorm * 700) \div 1000, 800 - (rNorm * 500) \div 1000,
          900 - (rNorm * 600) \div 1000>>

\* r = sqrt(x^2 + y^2); rNorm = min(r / 1.2, 1);
\* (0.2 + rNorm * 0.7, 0.8 - rNorm * 0.5, 0.9 - rNorm * 0.6)
CurvatureColor(point) ==
    LET r == Isqrt(point[1] * point[1] + point[2] * point[2])
        rNorm == Min((r * 1000) \div 12, 1000)
    IN  <<200 + (rNorm * 700) \div 1000, 800 - (rNorm * 500) \div 1000,
          900 - (rNorm * 600) \div 1000>>

SolidColor == <<300, 700, 900>>

\* the body of timestep.points.forEach
VertexColor(point, zMin, zRange, mode) ==
    IF mode = "height" THEN HeightColor(point[3], zMin, zRange)
    ELSE IF mode = "curvature" THEN CurvatureColor(point)
    ELSE SolidColor

\* new Float32Array(points.length * 3), filled vertex by vertex
Colors(points, mode) ==
    IF points = <<>> THEN <<>>
    ELSE Flatten([i \in DOMAIN points |->
                    VertexColor(points[i], ZMin(points), ZRange(points), mode)])

NoGeometry ==
    [built |-> FALSE, position |-> <<>>, index |-> <<>>, color |-> <<>>]

\* The geometry useMemo: nothing in it checks an index against the points,
\* and neither do setIndex and computeVertexNormals.
Geometry(timestep, mode) ==
    [built |-> TRUE,
     position |-> Positions(timestep.points),
     index |-> Indices(timestep.triangles),
     color |-> Colors(timestep.points, mode)]

NoTimestep == [points |-> <<>>, triangles |-> <<>>]
NoCellMesh ==
    [timestep |-> NoTimestep, colorMode |-> "height", geometry |-> NoGeometry]

\* CellMesh is rendered for the first time: useMemo computes the geometry.
CellMeshRender ==
    /\ ~cellMesh.geometry.built
    /\ cellMesh' = [cellMesh EXCEPT
                      !.geometry = Geometry(cellMesh.timestep, cellMesh.colorMode)]
    /\ UNCHANGED homeVars

\* CellMesh is rendered with another colorMode: the deps [timestep,
\* colorMode] changed, useMemo computes the geometry again.
CellMeshColorMode(m) ==
    /\ cellMesh.geometry.built
    /\ m \in ColorModes /\ m # cellMesh.colorMode
    /\ cellMesh' = [cellMesh EXCEPT
                      !.colorMode = m,
                      !.geometry = Geometry(cellMesh.timestep, m)]
    /\ UNCHANGED homeVars

\* ------------------------------------------------------ specification
InitHome ==
    /\ data = NoData
    /\ loading = TRUE
    /\ loadProgress = Whole(InitialProgress)
    /\ error = NoError
    /\ currentIndex = 0
    /\ isPlaying = FALSE
    /\ playbackSpeed = InitialSpeed
    /\ autoRotate = TRUE
    /\ showWireframe = FALSE
    /\ colorMode = "height"
    /\ phase = "created"
    /\ loader = IdleLoader
    /\ resp = NoResponse
    /\ requests = 0
    /\ timers = [id \in TimerIds |-> NoTimer]
    /\ animation = [playing |-> FALSE, data |-> NoData, speed |-> InitialSpeed,
                    interval |-> 0]
    /\ keyListener = [on |-> FALSE, data |-> NoData]
    /\ lastEvent = [op |-> "Init", arg |-> 0, wasPlaying |-> FALSE]
    /\ run = NoRun
    /\ progressLog = <<>>

Init == InitHome /\ cellMesh = NoCellMesh

Next ==
    \/ Mount
    \/ \E r \in Responses : FetchResponds(r)
    \/ FetchRejects
    \/ \E k \in 1..MaxLen : ReadChunk(k)
    \/ ReadDone
    \/ JsonResolves
    \/ FinishLoading
    \/ FlushEffects
    \/ Unmount
    \/ Advance
    \/ \E id \in TimerIds : Tick(id)
    \/ KeySpace
    \/ KeyArrowLeft
    \/ KeyArrowRight
    \/ KeyHome
    \/ KeyEnd
    \/ KeyR
    \/ KeyW
    \/ \E v \in 0..MaxTimesteps : SliderChange(v)
    \/ ResetClick
    \/ EndClick
    \/ PlayToggle
    \/ \E s \in SpeedOptions : SpeedChange(s)
    \/ RotateClick
    \/ WireframeClick
    \/ \E m \in ColorModes : ColorModeClick(m)

Spec == Init /\ [][Next]_vars

\* The same page with onIndexChange also called directly, with any index
\* from MaxOvershoot below 0 to MaxOvershoot above the last timestep.
ApiIndexes == (0 - MaxOvershoot)..(MaxTimesteps - 1 + MaxOvershoot)

ApiSetIndex(i) == ControlsRendered /\ OnIndexChange("OnIndexChange", i)

NextApi == Next \/ \E i \in ApiIndexes : ApiSetIndex(i)

SpecApi == Init /\ [][NextApi]_vars

\* A CellMesh on its own, given any of the timesteps, first in the page's
\* initial color mode.
InitMesh ==
    /\ InitHome
    /\ cellMesh \in {[timestep |-> ts, colorMode |-> colorMode,
                       geometry |-> NoGeometry] : ts \in Timesteps}

NextMesh ==
    \/ CellMeshRender
    \/ \E m \in ColorModes : CellMeshColorMode(m)

SpecMesh == InitMesh /\ [][NextMesh]_vars

\* The page watched: the user acts (and leaves) only while playback is
\* paused, so that a playback once started runs without further input.
\* Time passes, due intervals fire and pending effects are run: the
\* browser's timers and React's scheduler do not starve them.
NextWatch ==
    \/ Mount
    \/ \E r \in Responses : FetchResponds(r)
    \/ FetchRejects
    \/ \E k \in 1..MaxLen : ReadChunk(k)
    \/ ReadDone
    \/ JsonResolves
    \/ FinishLoading
    \/ FlushEffects
    \/ Advance
    \/ \E id \in TimerIds : Tick(id)
    \/ ~isPlaying /\ Unmount
    \/ ~isPlaying /\ KeySpace
    \/ ~isPlaying /\ KeyArrowLeft
    \/ ~isPlaying /\ KeyArrowRight
    \/ ~isPlaying /\ KeyHome
    \/ ~isPlaying /\ KeyEnd
    \/ ~isPlaying /\ KeyR
    \/ ~isPlaying /\ KeyW
    \/ ~isPlaying /\ \E v \in 0..MaxTimesteps : SliderChange(v)
    \/ ~isPlaying /\ ResetClick
    \/ ~isPlaying /\ EndClick
    \/ ~isPlaying /\ PlayToggle
    \/ ~isPlaying /\ \E sp \in SpeedOptions : SpeedChange(sp)
    \/ ~isPlaying /\ RotateClick
    \/ ~isPlaying /\ WireframeClick
    \/ ~isPlaying /\ \E m \in ColorModes : ColorModeClick(m)

SpecWatch ==
    /\ Init
    /\ [][NextWatch]_vars
    /\ WF_vars(Advance)
    /\ WF_vars(\E id \in TimerIds : Tick(id))
    /\ WF_vars(FlushEffects)

\* ------------------------------------------------------------- claims
TickStep == \E id \in TimerIds : Tick(id)

Clamp(i, last) == Max(0, Min(i, last))

\* C1: once a dataset is loaded, currentIndex is an index of one of its
\* timesteps, 0 <= currentIndex <= timesteps.length - 1, whatever the
\* number of timesteps the loader produced (0 included).
C1_IndexInRange ==
    data.set => currentIndex >= 0 /\ currentIndex <= LastIndex

\* C2: the index-setting operation handed to the controls clamps: after
\* onIndexChange(i), currentIndex = max(0, min(i, lastIndex)).
C2_SetIndexClamps ==
    lastEvent.op \in IndexOps => currentIndex = Clamp(lastEvent.arg, LastIndex)

\* C3: an interval firing while playing at the last index leaves the index
\* there and pauses; a firing never moves the index backwards or by more
\* than one; a firing while paused changes neither index nor play state.
C3_StopsAtEnd ==
    [][TickStep =>
        /\ (isPlaying /\ currentIndex = LastIndex
                => currentIndex' = LastIndex /\ ~isPlaying')
        /\ currentIndex' \in {currentIndex, currentIndex + 1}
        /\ (~isPlaying => currentIndex' = currentIndex /\ ~isPlaying')]_vars

C3_Witness ==
    /\ lastEvent.op = "Tick" /\ lastEvent.wasPlaying /\ ~isPlaying
    /\ data.timesteps >= 2 /\ currentIndex = LastIndex

\* C4 as claimed, for a dataset of two or more timesteps: after an
\* undisturbed play from index 0 at 1x and N whole periods, currentIndex =
\* min(N, lastIndex), and isPlaying = false once N = lastIndex.
Periods == run.ms \div IntervalBaseMs

C4_AsClaimed ==
    run.clean /\ ~AnyDue(timers) /\ data.timesteps >= 2
        => /\ currentIndex = Min(Periods, LastIndex)
           /\ (Periods >= LastIndex => ~isPlaying)

\* C4 amended: after an undisturbed play from index 0 at 1x and N whole
\* periods, currentIndex = min(N, lastIndex) (0 for an empty dataset) and
\* isPlaying is true exactly while N <= lastIndex (N < 1 for an empty
\* dataset): the firing after the one that reached lastIndex pauses.
C4_PlayRun ==
    run.clean /\ ~AnyDue(timers)
        => /\ currentIndex = Min(Periods, Max(LastIndex, 0))
           /\ (isPlaying <=> Periods < Max(data.timesteps, 1))

C4_Witness ==
    /\ run.clean /\ ~AnyDue(timers) /\ ~isPlaying
    /\ data.timesteps >= 2 /\ currentIndex = LastIndex
    /\ Periods = data.timesteps

\* C5: an interval firing while playing below the last index sets
\* currentIndex to its value at the firing plus one.
C5_FiringAdvancesByOne ==
    [][TickStep /\ isPlaying /\ currentIndex < LastIndex
        => currentIndex' = currentIndex + 1]_vars

C5_Witness ==
    /\ lastEvent.op = "Tick" /\ lastEvent.wasPlaying /\ isPlaying
    /\ currentIndex >= 1 /\ currentIndex <= LastIndex

\* C6: once playback is stopped no interval firing changes currentIndex:
\* a firing while isPlaying = false leaves the index alone, an explicit
\* pause and a teardown leave no interval armed, and none is armed while
\* playback stays stopped.
C6_NoAdvanceAfterStop ==
    [][/\ (TickStep /\ ~isPlaying => currentIndex' = currentIndex)
       /\ (isPlaying /\ ~isPlaying' /\ ~TickStep => ArmedTimers(timers') = {})
       /\ (phase' \in {"unmounted", "crashed"} => ArmedTimers(timers') = {})
       /\ (~isPlaying /\ ~isPlaying'
              => ArmedTimers(timers') \subseteq ArmedTimers(timers))]_vars

C6_Witness ==
    /\ lastEvent.op = "Tick" /\ ~lastEvent.wasPlaying
    /\ data.timesteps >= 1

\* C7 as claimed: a speed change while playing keeps the index and the
\* play state, leaves one interval armed at 100 / speed, and does not
\* discard the time already elapsed in the interval under way.
SpeedChangeStep == \E s \in SpeedOptions : SpeedChange(s)

C7_SpeedChangeKeepsElapsed ==
    [][SpeedChangeStep /\ isPlaying
        => /\ currentIndex' = currentIndex /\ isPlaying'
           /\ animation'.interval # 0
           /\ timers'[animation'.interval].period = PeriodMs(playbackSpeed')
           /\ (Elapsed(timers, animation) > 0
                  => Elapsed(timers', animation') > 0)]_vars

\* C8: the index-setting actions are accepted whether paused or playing
\* and change none of isPlaying, playbackSpeed, autoRotate, showWireframe,
\* colorMode.
IndexStep ==
    \/ KeyArrowLeft
    \/ KeyArrowRight
    \/ KeyHome
    \/ KeyEnd
    \/ \E v \in 0..MaxTimesteps : SliderChange(v)
    \/ ResetClick
    \/ EndClick

C8_IndexActionsFrame ==
    /\ [](ControlsRendered => ENABLED ResetClick /\ ENABLED EndClick)
    /\ [](ControlsRendered /\ data.timesteps >= 2
            => ENABLED (\E v \in 0..MaxTimesteps : SliderChange(v)))
    /\ [](phase = "mounted" /\ keyListener.on
            => /\ ENABLED KeyArrowLeft /\ ENABLED KeyArrowRight
               /\ ENABLED KeyHome /\ ENABLED KeyEnd)
    /\ [][IndexStep
            => UNCHANGED <<isPlaying, playbackSpeed, autoRotate, showWireframe,
                           colorMode>>]_vars

C8_Witness ==
    /\ lastEvent.op = "SliderChange" /\ lastEvent.wasPlaying /\ isPlaying
    /\ playbackSpeed # InitialSpeed /\ colorMode # "height"

\* C9: for a readable response whose content-length equals the size of its
\* well-formed payload, the values passed to setLoadProgress never decrease
\* and the load ends with the dataset set and 100 as the last value.
RECURSIVE NonDecreasing(_)
NonDecreasing(log) ==
    Len(log) < 2
        \/ (FracLeq(log[1], log[2]) /\ NonDecreasing(Tail(log)))

Streamed == Ok(resp) /\ resp.readable /\ Total(resp) = Len(resp.body)

C9_StreamProgressMonotone ==
    Streamed /\ resp.wellFormed
        => /\ NonDecreasing(progressLog)
           /\ (LoadOver
                 => /\ data.set
                    /\ FracEq(progressLog[Len(progressLog)], Whole(FinalProgress))
                    /\ FracEq(loadProgress, Whole(FinalProgress)))

C9_Witness ==
    /\ Streamed /\ resp.wellFormed /\ LoadOver
    /\ lastEvent.op = "ReadDone" /\ Len(progressLog) >= 5

\* C10: for a response without a usable content-length, or without a
\* readable body, and a well-formed payload, one request is made and the
\* only value reported after the initial 10 is 100, together with the
\* dataset.
Fallback == Ok(resp) /\ (Total(resp) = 0 \/ ~resp.readable)

C10_FallbackSingleJump ==
    Fallback /\ resp.wellFormed
        => /\ requests = 1
           /\ progressLog \in {<<Whole(StartProgress)>>,
                               <<Whole(StartProgress), Whole(FinalProgress)>>}
           /\ (Len(progressLog) = 2 <=> data.set)
           /\ (LoadOver => data.set /\ loadProgress = Whole(FinalProgress))

C10_Witness ==
    /\ Fallback /\ resp.contentLength = <<>> /\ LoadOver
    /\ data.set /\ lastEvent.op = "JsonResolves"

\* C11: a response whose status is not a success ends the attempt in the
\* error state naming that status: the error is set and rendered, the
\* dataset stays null, no chunk is or can be read, and one request only has
\* been issued.
NonOk == resp # NoResponse /\ ~Ok(resp)

Terminal ==
    /\ loader = [IdleLoader EXCEPT !.pc = "failed"]
    /\ ErrorRendered(loading, error) /\ ~ViewerRendered(loading, error, data)
    /\ ~data.set
    /\ requests = 1
    /\ ~ENABLED (\E k \in 1..MaxLen : ReadChunk(k))
    /\ ~ENABLED ReadDone /\ ~ENABLED JsonResolves /\ ~ENABLED Mount

C11_NonOkIsTerminal ==
    /\ NonOk => error = StatusError(resp.status) /\ error.status # 0 /\ Terminal
    /\ error.set /\ error.status # 0
          => error.status \in {c \in StatusCodes : c < 200 \/ c > 299} /\ Terminal

C11_Witness ==
    /\ NonOk /\ resp.status = 404 /\ resp.readable /\ Total(resp) > 0
    /\ lastEvent.op = "FetchResponds" /\ error.status = 404

\* C12: a payload that does not parse, or that parses to something that is
\* no Mesh Dataset, ends the load with the error set and the dataset null,
\* and the viewer is rendered with a Mesh Dataset only.
Unusable == resp # NoResponse /\ Ok(resp) /\ resp.shape # "mesh"

C12_OnlyMeshExposed ==
    /\ LoadOver /\ Unusable => error.set /\ ~data.set
    /\ data.set => data.shape = "mesh"
    /\ phase = "mounted" /\ ViewerRendered(loading, error, data)
          => data.shape = "mesh"

\* C13: for a timestep in which a component of a triangle is no index of a
\* point, in every color mode, no geometry is produced: a geometry is built
\* only from triangles whose components are all indices of points.
C13_InvalidIndexFailsFast ==
    cellMesh.geometry.built => ValidIndices(cellMesh.timestep)

\* C14: for a timestep whose triangles hold indices of points only, in every
\* color mode, position holds the 3 * points.length coordinates and index
\* the 3 * triangles.length indices, in their order, and color has
\* 3 * points.length elements.
Slot(i, k) == 3 * (i - 1) + k

C14_BufferLayout ==
    LET ts == cellMesh.timestep
        g == cellMesh.geometry
    IN  g.built /\ ValidIndices(ts)
          => /\ Len(g.position) = 3 * Len(ts.points)
             /\ Len(g.index) = 3 * Len(ts.triangles)
             /\ Len(g.color) = 3 * Len(ts.points)
             /\ \A i \in DOMAIN ts.points : \A k \in 1..3 :
                    g.position[Slot(i, k)] = ts.points[i][k]
             /\ \A j \in DOMAIN ts.triangles : \A k \in 1..3 :
                    g.index[Slot(j, k)] = [hi |-> 0, lo |-> ts.triangles[j][k]]

C14_Witness ==
    LET ts == cellMesh.timestep
    IN  /\ cellMesh.geometry.built /\ ValidIndices(ts)
        /\ cellMesh.colorMode = "curvature"
        /\ Len(ts.points) >= 2 /\ Len(ts.triangles) >= 2
        /\ ts.triangles[1] # ts.triangles[2]

\* C15 as claimed: in height mode, with one vertex at least, a vertex of
\* minimum z has first color component 0.1 and a vertex of maximum z has
\* 1.0, and if all z are equal all vertices have the same color.
ColorOf(g, i) == <<g.color[Slot(i, 1)], g.color[Slot(i, 2)], g.color[Slot(i, 3)]>>

HeightBuilt ==
    /\ cellMesh.geometry.built /\ cellMesh.colorMode = "height"
    /\ Len(cellMesh.timestep.points) >= 1

C15_AsClaimed ==
    LET points == cellMesh.timestep.points
        g == cellMesh.geometry
    IN  HeightBuilt
          => /\ \A i \in DOMAIN points :
                    /\ points[i][3] = ZMin(points) => ColorOf(g, i)[1] = 100
                    /\ points[i][3] = ZMax(points) => ColorOf(g, i)[1] = 1000
             /\ ZMin(points) = ZMax(points)
                    => \A i, j \in DOMAIN points : ColorOf(g, i) = ColorOf(g, j)

\* C15 amended: in height mode, if the vertices do not all have the same
\* z, a vertex of minimum z has first color component 0.1 and a vertex of
\* maximum z has 1.0; if they all have the same z (one vertex included),
\* every vertex has the color (0.1, 0.3, 1.0) of the minimum.
C15_HeightRamp ==
    LET points == cellMesh.timestep.points
        g == cellMesh.geometry
    IN  HeightBuilt
          => /\ ZMin(points) < ZMax(points)
                    => \A i \in DOMAIN points :
                          /\ points[i][3] = ZMin(points) => ColorOf(g, i)[1] = 100
                          /\ points[i][3] = ZMax(points) => ColorOf(g, i)[1] = 1000
             /\ ZMin(points) = ZMax(points)
                    => \A i \in DOMAIN points : ColorOf(g, i) = <<100, 300, 1000>>

C15_Witness ==
    /\ HeightBuilt
    /\ Len(cellMesh.timestep.points) >= 2
    /\ ZMin(cellMesh.timestep.points) < ZMax(cellMesh.timestep.points)

\* C16: in curvature mode a vertex with x = y = 0 has color (0.2, 0.8, 0.9)
\* and a vertex with x^2 + y^2 >= 1.44 has color (0.9, 0.3, 0.3), whatever
\* its z and the other vertices.
C16_CurvatureEnds ==
    LET points == cellMesh.timestep.points
        g == cellMesh.geometry
    IN  g.built /\ cellMesh.colorMode = "curvature"
          => \A i \in DOMAIN points :
                /\ points[i][1] = 0 /\ points[i][2] = 0
                      => ColorOf(g, i) = <<200, 800, 900>>
                /\ points[i][1] * points[i][1] + points[i][2] * points[i][2] >= 144
                      => ColorOf(g, i) = <<900, 300, 300>>

C16_Witness ==
    LET points == cellMesh.timestep.points
    IN  /\ cellMesh.geometry.built /\ cellMesh.colorMode = "curvature"
        /\ Len(points) >= 2
        /\ points[1][1] = 0 /\ points[1][2] = 0 /\ points[1][3] # 0
        /\ points[2][1] * points[2][1] + points[2][2] * points[2][2] > 144

\* C17: the dataset is set once at most, by the step that has received and
\* parsed the whole payload, and is never replaced or changed afterwards.
C17_DatasetBuiltOnce ==
    [][data' # data
        => /\ ~data.set /\ data'.set
           /\ (ReadDone \/ JsonResolves)
           /\ resp.wellFormed /\ data' = ParsedData(resp)
           /\ loader.pc = "read"
                 => /\ loader.received = Len(resp.body)
                    /\ AllChunks(loader.chunks, loader.received) = resp.body]_vars

C17_Witness ==
    /\ data.set /\ data.timesteps = MaxTimesteps /\ loader.pc = "done"
    /\ lastEvent.op = "KeyEnd" /\ currentIndex = LastIndex /\ isPlaying

\* C18: key r and the Rotate button toggle autoRotate, key w and the
\* Wireframe button toggle showWireframe, a color-mode button sets
\* colorMode; each leaves currentIndex, isPlaying, playbackSpeed and the
\* other two view options unchanged, and colorMode is always one of height,
\* curvature, solid.
C18_ViewActionsFrame ==
    /\ [](colorMode \in ColorModes)
    /\ [][/\ (KeyR \/ RotateClick)
               => /\ UNCHANGED <<playState, showWireframe, colorMode>>
                  /\ (RotateClick \/ keyListener.data.set)
                        => autoRotate' = ~autoRotate
          /\ (KeyW \/ WireframeClick)
               => /\ UNCHANGED <<playState, autoRotate, colorMode>>
                  /\ (WireframeClick \/ keyListener.data.set)
                        => showWireframe' = ~showWireframe
          /\ \A m \in ColorModes :
                ColorModeClick(m)
                   => /\ UNCHANGED <<playState, autoRotate, showWireframe>>
                      /\ colorMode' = m]_vars

C18_Witness ==
    /\ lastEvent.op = "KeyR" /\ lastEvent.wasPlaying /\ isPlaying
    /\ ~autoRotate /\ currentIndex >= 1 /\ colorMode = "solid"

\* C19: on the streaming path the bytes assembled for decoding are the
\* received chunks one after the other: at every point of the read they are
\* the payload's first received bytes, and at the end the whole payload,
\* however it was split.
C19_ChunksInOrder ==
    /\ [](loader.pc = "read"
            => AllChunks(loader.chunks, loader.received)
                 = SubSeq(resp.body, 1, loader.received))
    /\ [][ReadDone
            => AllChunks(loader.chunks, loader.received) = resp.body]_vars

C19_Witness ==
    /\ loader.pc = "read" /\ Len(loader.chunks) >= 2
    /\ loader.received = Len(resp.body)

\* C20: the page starts at index 0, paused, at 1x, rotating, without
\* wireframe, in height mode; currentIndex, isPlaying and playbackSpeed are
\* changed by interval firings and input handlers only, never by a step of
\* the loader.
InputStep ==
    \/ KeySpace
    \/ IndexStep
    \/ PlayToggle
    \/ SpeedChangeStep

LoadStep ==
    \/ Mount
    \/ \E r \in Responses : FetchResponds(r)
    \/ FetchRejects
    \/ \E k \in 1..MaxLen : ReadChunk(k)
    \/ ReadDone
    \/ JsonResolves
    \/ FinishLoading

C20_InitialAndWriters ==
    /\ [](phase = "created"
            => /\ currentIndex = 0 /\ ~isPlaying /\ playbackSpeed = SpeedUnit
               /\ autoRotate /\ ~showWireframe /\ colorMode = "height")
    /\ [][/\ playState' # playState => (TickStep \/ InputStep)
          /\ LoadStep => UNCHANGED playState]_vars

C20_Witness ==
    /\ loader.pc = "done" /\ lastEvent.op = "SpeedChange"
    /\ isPlaying /\ currentIndex >= 1 /\ playbackSpeed # InitialSpeed

\* C21: at most one interval is armed in every state; while the page is
\* mounted and no effect is pending, an interval is armed exactly when
\* isPlaying and data is set, it is the animation effect's, and its period
\* times the speed is 100 ms.
C21_OneTimer ==
    /\ Cardinality(ArmedTimers(timers)) <= 1
    /\ phase = "mounted" /\ ~EffectsPending
          => /\ ArmedTimers(timers) # {} <=> (isPlaying /\ data.set)
             /\ \A id \in ArmedTimers(timers) :
                   /\ id = animation.interval
                   /\ timers[id].period * playbackSpeed
                         = IntervalBaseMs * SpeedUnit

C21_Witness ==
    /\ phase = "mounted" /\ ~EffectsPending
    /\ Cardinality(ArmedTimers(timers)) = 1
    /\ isPlaying /\ playbackSpeed = 16 /\ currentIndex = LastIndex
    /\ lastEvent.op = "PlayToggle"

\* C22: while data is null a key press changes none of currentIndex,
\* isPlaying, playbackSpeed, autoRotate, showWireframe, colorMode; no
\* interval is armed, and the animation effect arms none without data
\* whatever isPlaying and the speed are.
KeyStep ==
    \/ KeySpace
    \/ KeyArrowLeft
    \/ KeyArrowRight
    \/ KeyHome
    \/ KeyEnd
    \/ KeyR
    \/ KeyW

C22_NoDataNoEffect ==
    /\ [](~data.set => ArmedTimers(timers) = {})
    /\ [](\A p \in BOOLEAN : \A sp \in SpeedOptions :
            AnimationSetup(timers, p, NoData, sp)
                = [timers |-> timers, interval |-> 0])
    /\ [][KeyStep /\ ~data.set => UNCHANGED <<playState, viewState>>]_vars

C22_Witness ==
    /\ ~data.set /\ phase = "mounted" /\ loader.pc = "read"
    /\ lastEvent.op = "KeySpace" /\ ~isPlaying

\* C23: data and error are never both set; when the load has ended with
\* an error, 100 has not been reported and is not the progress; the viewer
\* and its controls are rendered, and the controls' callbacks can run, only
\* with loading false, error null and data set.
ControlStep ==
    \/ \E v \in 0..MaxTimesteps : SliderChange(v)
    \/ ResetClick
    \/ EndClick
    \/ PlayToggle
    \/ SpeedChangeStep
    \/ RotateClick
    \/ WireframeClick
    \/ \E m \in ColorModes : ColorModeClick(m)

C23_LoadOutcomes ==
    /\ ~(data.set /\ error.set)
    /\ error.set
          => /\ ~FracEq(loadProgress, Whole(FinalProgress))
             /\ \A i \in DOMAIN progressLog :
                   ~FracEq(progressLog[i], Whole(FinalProgress))
    /\ ControlsRendered \/ ENABLED ControlStep
          => ~loading /\ ~error.set /\ data.set

C23_Witness ==
    /\ error.set /\ LoadOver /\ lastEvent.op = "ReadDone"
    /\ loadProgress = Whole(DecodedProgress) /\ ~data.set /\ ~loading

\* C24: with the interval firing when due and no input after the start, a
\* playback of a loaded Mesh Dataset of one timestep at least, started at
\* any index and speed, leads to isPlaying = false at the last index; and
\* that state is left by no interval firing, effect or loader step.
Watching ==
    /\ phase = "mounted" /\ isPlaying
    /\ data.set /\ data.shape = "mesh" /\ data.timesteps >= 1

PausedAtEnd == ~isPlaying /\ data.set /\ currentIndex = LastIndex

C24_PlaybackEnds ==
    /\ Watching ~> PausedAtEnd
    /\ [][PausedAtEnd /\ (TickStep \/ Advance \/ FlushEffects \/ LoadStep)
            => PausedAtEnd']_vars

C24_Witness ==
    /\ PausedAtEnd /\ data.timesteps = MaxTimesteps
    /\ lastEvent.op = "Tick" /\ lastEvent.wasPlaying
    /\ ArmedTimers(timers) = {} /\ playbackSpeed = 1

====
